---- MODULE Spec2Model ----
(***************************************************************************)
(* Model of the deterministic slot engine of llm-ai-scheduler              *)
(* (app/scheduler.py, compute_slots and its helper predicates).            *)
(*                                                                         *)
(* Time is counted in minutes.  A calendar date is the number of days      *)
(* since 2025-02-03 (a Monday); a wall-clock datetime is the number of     *)
(* minutes since 2025-02-03T00:00 on the local clock.  A datetime value is *)
(* a record [w, fixed, off]: w is the wall-clock reading, fixed tells      *)
(* whether its tzinfo is a fixed UTC offset (parsed from a string that     *)
(* carries one) or the availability's ZoneInfo object, off is the fixed    *)
(* offset.  A timestamp string is a record [k, w, off] with k = "bad"      *)
(* (does not parse), "naive" (no offset) or "offset" (offset or Z suffix). *)
(***************************************************************************)
EXTENDS Integers, Sequences, FiniteSets, TLC

VARIABLES avail, max_slots, pc, current, slot_start, slots, result,
          outcome, round, first,
          entry, request, api_key, handler, messages, chat_log, invoked,
          explanations, raised, response,
          calls, lists

\* the state of one /suggest request and of the language-model client
service == <<entry, request, api_key, handler, messages, chat_log, invoked,
             explanations, raised, response>>

\* the state of the concurrent invocations of compute_slots
threads == <<calls, lists>>

vars == <<avail, max_slots, pc, current, slot_start, slots, result,
          outcome, round, first, service, threads>>

----------------------------------------------------------------------------
(* Bounds of the model *)

MaxSlotsBound == 2
MaxSpanDays == 1

----------------------------------------------------------------------------
(* Calendar and timezone (datetime / zoneinfo semantics) *)

MinutesPerDay == 24 * 60

\* 2025-03-09, the day America/New_York springs forward, counted from 2025-02-03
SpringForwardDay == 34

\* offsets of America/New_York before and after the transition, in minutes
EstOffset == 0 - 300
EdtOffset == 0 - 240

\* first wall-clock minute that is read with the daylight offset: 03:00 on the
\* transition day (wall times 02:00..02:59 do not exist and, with fold = 0,
\* are read with the offset in force before the transition)
FirstDaylightWall == SpringForwardDay * MinutesPerDay + 3 * 60

\* ZoneInfo(name).utcoffset(dt) for a datetime with wall reading w, fold = 0
UtcOffset(tzname, w) ==
  IF tzname = "UTC" THEN 0
  ELSE IF w < FirstDaylightWall THEN EstOffset ELSE EdtOffset

\* date.weekday(): Monday = 0 .. Sunday = 6 (day 0 is a Monday)
Weekday(day) == day % 7

\* datetime(y, m, d, hh, mm, 0, tzinfo = tz)
MkLocal(day, hh, mm) == [w |-> day * MinutesPerDay + hh * 60 + mm, fixed |-> FALSE, off |-> 0]

Local(w) == [w |-> w, fixed |-> FALSE, off |-> 0]

\* the instant of a datetime value, in minutes on the UTC clock
ToUtc(tzname, d) == d.w - (IF d.fixed THEN d.off ELSE UtcOffset(tzname, d.w))

\* datetime.__lt__ / __le__ / __sub__: two values that share the tzinfo object
\* are compared on their wall-clock readings, all others by instant
SameTz(a, b) == ~a.fixed /\ ~b.fixed

DtLt(tzname, a, b) ==
  IF SameTz(a, b) THEN a.w < b.w ELSE ToUtc(tzname, a) < ToUtc(tzname, b)

DtLe(tzname, a, b) ==
  IF SameTz(a, b) THEN a.w <= b.w ELSE ToUtc(tzname, a) <= ToUtc(tzname, b)

\* (a - b).total_seconds() / 60
DtDiff(tzname, a, b) ==
  IF SameTz(a, b) THEN a.w - b.w ELSE ToUtc(tzname, a) - ToUtc(tzname, b)

\* datetime.isoformat() of a datetime in the availability's timezone: the wall
\* reading followed by the UTC offset in force there
IsoFormat(tzname, w) == [k |-> "offset", w |-> w, off |-> UtcOffset(tzname, w)]

\* datetime.fromisoformat(s.replace("Z", "+00:00")) succeeded
Parses(ts) == ts.k # "bad"

\* the parsed value, after `if x.tzinfo is None: x = x.replace(tzinfo = tz)`
FromIso(ts) ==
  IF ts.k = "offset" THEN [w |-> ts.w, fixed |-> TRUE, off |-> ts.off]
  ELSE [w |-> ts.w, fixed |-> FALSE, off |-> 0]

----------------------------------------------------------------------------
(* Helper predicates of scheduler.py *)

\* _parse_time: "HH:MM" -> (hour, minute); a time string is the pair <<HH, MM>>
parse_time(s) == <<s[1], s[2]>>

\* minutes of the local day of a wall-clock reading
MinuteOfDay(w) == w % MinutesPerDay

\* the window taken as closed at its end
time_in_range_ClosedEnd(w, time_range) ==
  LET start_min == parse_time(time_range.start)[1] * 60 + parse_time(time_range.start)[2]
      end_min == parse_time(time_range.end)[1] * 60 + parse_time(time_range.end)[2]
      curr_min == MinuteOfDay(w)
  IN  start_min <= curr_min /\ curr_min <= end_min

time_in_range(w, time_range) ==
  LET sh == parse_time(time_range.start)[1]
      sm == parse_time(time_range.start)[2]
      eh == parse_time(time_range.end)[1]
      em == parse_time(time_range.end)[2]
      start_min == sh * 60 + sm
      end_min == eh * 60 + em
      curr_min == MinuteOfDay(w)
  IN  start_min <= curr_min /\ curr_min < end_min

\* the preferred windows never consulted
datetime_in_preferred_times_Unchecked(w, preferred_times) == TRUE

datetime_in_preferred_times(w, preferred_times) ==
  IF preferred_times = <<>> THEN TRUE
  ELSE \E i \in 1..Len(preferred_times) : time_in_range(w, preferred_times[i])

\* the weekday counted from Sunday = 0
day_in_preferred_days_SundayFirst(w, preferred_days) ==
  LET weekday == (Weekday(w \div MinutesPerDay) + 1) % 7
  IN  \E i \in 1..Len(preferred_days) : preferred_days[i] = weekday

day_in_preferred_days(w, preferred_days) ==
  LET weekday == Weekday(w \div MinutesPerDay)
  IN  \E i \in 1..Len(preferred_days) : preferred_days[i] = weekday

\* an appointment that does not parse taken as a conflict instead of skipped
ApptConflicts_MalformedBlocks(tzname, s, e, appt) ==
  IF Parses(appt.start) /\ Parses(appt.end)
    THEN /\ DtLt(tzname, Local(s), FromIso(appt.end))
         /\ DtLt(tzname, FromIso(appt.start), Local(e))
    ELSE TRUE

\* the overlap test taken on closed intervals
ApptConflicts_Closed(tzname, s, e, appt) ==
  /\ Parses(appt.start) /\ Parses(appt.end)
  /\ DtLe(tzname, Local(s), FromIso(appt.end))
  /\ DtLe(tzname, FromIso(appt.start), Local(e))

\* one iteration of the loop of _conflicts_with_existing reports an overlap
ApptConflicts(tzname, s, e, appt) ==
  /\ Parses(appt.start) /\ Parses(appt.end)
  /\ DtLt(tzname, Local(s), FromIso(appt.end))
  /\ DtLt(tzname, FromIso(appt.start), Local(e))

conflicts_with_existing(tzname, s, e, existing) ==
  \E i \in 1..Len(existing) : ApptConflicts(tzname, s, e, existing[i])

\* only the gap before the appointment is checked
ApptBreaksBuffer_BeforeOnly(tzname, s, e, appt, buffer_minutes) ==
  /\ Parses(appt.start) /\ Parses(appt.end)
  /\ DtLe(tzname, Local(e), FromIso(appt.start))
  /\ DtDiff(tzname, FromIso(appt.start), Local(e)) < buffer_minutes

\* one iteration of the loop of _respects_buffer returns False
ApptBreaksBuffer(tzname, s, e, appt, buffer_minutes) ==
  /\ Parses(appt.start) /\ Parses(appt.end)
  /\ IF DtLe(tzname, Local(e), FromIso(appt.start))
       THEN DtDiff(tzname, FromIso(appt.start), Local(e)) < buffer_minutes
       ELSE /\ DtLe(tzname, FromIso(appt.end), Local(s))
            /\ DtDiff(tzname, Local(s), FromIso(appt.end)) < buffer_minutes

respects_buffer(tzname, s, e, existing, buffer_minutes) ==
  IF buffer_minutes <= 0 THEN TRUE
  ELSE ~ \E i \in 1..Len(existing) :
           ApptBreaksBuffer(tzname, s, e, existing[i], buffer_minutes)

\* slots[:n] on a Python list
Slice(s, n) ==
  IF n >= 0 THEN SubSeq(s, 1, IF n < Len(s) THEN n ELSE Len(s))
  ELSE SubSeq(s, 1, IF Len(s) + n > 0 THEN Len(s) + n ELSE 0)

----------------------------------------------------------------------------
(* Inputs: the availability records and max_slots values the calls are made with *)

T(hh, mm) == <<hh, mm>>

TimeRange(s, e) == [start |-> s, end |-> e]

Naive(day, hh, mm) == [k |-> "naive", w |-> day * MinutesPerDay + hh * 60 + mm, off |-> 0]

WithOffset(day, hh, mm, off) == [k |-> "offset", w |-> day * MinutesPerDay + hh * 60 + mm, off |-> off]

Unparseable == [k |-> "bad", w |-> 0, off |-> 0]

Appt(s, e) == [start |-> s, end |-> e]

\* "2025-02-03T10:00:00" .. "2025-02-03T10:30:00"
ApptMonday == Appt(Naive(0, 10, 0), Naive(0, 10, 30))

\* "2025-02-03T15:00:00Z" .. "2025-02-03T15:30:00Z"
ApptMondayUtc == Appt(WithOffset(0, 15, 0, 0), WithOffset(0, 15, 30, 0))

\* a booking whose start does not parse
ApptMalformed == Appt(Unparseable, Naive(0, 9, 30))

\* a booking that ends before it starts: 11:00 .. 10:50
ApptInverted == Appt(Naive(0, 11, 0), Naive(0, 10, 50))

\* a booking that ends before it starts: 12:00 .. 09:55
ApptInvertedWide == Appt(Naive(0, 12, 0), Naive(0, 9, 55))

\* a booking whose end does not parse
ApptMalformedEnd == Appt(Naive(0, 9, 0), Unparseable)

\* "2025-03-09T07:30:00+00:00" .. "2025-03-09T08:00:00+00:00"
ApptSpringUtc == Appt(WithOffset(SpringForwardDay, 7, 30, 0), WithOffset(SpringForwardDay, 8, 0, 0))

\* "2025-03-09T03:10:00" .. "2025-03-09T03:50:00"
ApptSpringLocal == Appt(Naive(SpringForwardDay, 3, 10), Naive(SpringForwardDay, 3, 50))

ExistingLists ==
  { <<>>, <<ApptMonday>>, <<ApptMalformed, ApptMondayUtc, ApptMalformedEnd>>,
    <<ApptInverted, ApptInvertedWide>>,
    <<ApptSpringUtc>>, <<ApptSpringLocal>> }

Timezones == {"UTC", "America/New_York"}

SlotLengths == {30, 40, 60}

BufferLengths == {0, 10}

Weekdays == <<0, 1, 2, 3, 4>>

PreferredDaysLists == { Weekdays, <<>>, <<0, 6>> }

PreferredTimesLists ==
  { <<>>, <<TimeRange(T(9, 0), T(10, 0)), TimeRange(T(3, 0), T(4, 0))>> }

\* business hours and the first date of the range they are tried with
DayHours == TimeRange(T(9, 0), T(17, 0))

NightHours == { TimeRange(T(2, 0), T(4, 0)), TimeRange(T(2, 30), T(4, 0)) }

HoursAndStart ==
  ({DayHours} \X {0, 5}) \cup (NightHours \X {SpringForwardDay})

MaxSlotsValues == (0 - 1)..MaxSlotsBound

EndDates(start) == { start - 1 + i : i \in 0..(MaxSpanDays + 1) }

Availabilities ==
  UNION { { [provider_id |-> "dr-smith",
             timezone |-> tz,
             slot_length_minutes |-> len,
             buffer_minutes |-> buf,
             business_hours |-> hs[1],
             date_range |-> [start |-> hs[2], end |-> de],
             existing_appointments |-> ex,
             preferred_days |-> pd,
             preferred_times |-> pt] :
            tz \in Timezones, len \in SlotLengths, buf \in BufferLengths,
            de \in EndDates(hs[2]), ex \in ExistingLists,
            pd \in PreferredDaysLists, pt \in PreferredTimesLists } :
          hs \in HoursAndStart }

----------------------------------------------------------------------------
(* compute_slots, one action per step of its loops *)

tz == avail.timezone
slot_mins == avail.slot_length_minutes
buffer_mins == avail.buffer_minutes
bh == avail.business_hours
dr == avail.date_range
existing == avail.existing_appointments
preferred_days == avail.preferred_days
preferred_times == avail.preferred_times

day_start == MkLocal(current, parse_time(bh.start)[1], parse_time(bh.start)[2]).w
day_end == MkLocal(current, parse_time(bh.end)[1], parse_time(bh.end)[2]).w
slot_end == slot_start + slot_mins

\* an Optional value is a sequence of at most one element; there is no request,
\* no response and no concurrent invocation while compute_slots is called alone
NoRequest == [availability_text |-> <<>>, structured_availability |-> <<>>]

NoResponse == [status |-> 0, slots |-> <<>>]

ServiceIdle(e) ==
  /\ entry = e
  /\ request = NoRequest
  /\ api_key = FALSE
  /\ handler = "idle"
  /\ messages = <<>>
  /\ chat_log = <<>>
  /\ invoked = [parse_availability_text |-> 0, explain_slots |-> 0]
  /\ explanations = <<>>
  /\ raised = "none"
  /\ response = NoResponse

ThreadsIdle ==
  /\ calls = <<>>
  /\ lists = <<>>

\* the state on entry of compute_slots(availability, max_slots), line 131-132
Init ==
  /\ avail \in Availabilities
  /\ max_slots \in MaxSlotsValues
  /\ pc = "outer"
  /\ current = avail.date_range.start
  /\ slot_start = 0
  /\ slots = <<>>
  /\ result = <<>>
  /\ outcome = "none"
  /\ round = 1
  /\ first = <<>>
  /\ ServiceIdle("compute_slots")
  /\ ThreadsIdle

\* the trailing period never cut off
PartialPeriod_Never == FALSE

PartialPeriod == slot_end > day_end

\* the outer loop without its limit on the number of slots
OuterCond_NoLimit == current <= dr.end

\* the outer loop running one date past the end of the range
OuterCond_PastEnd == current <= dr.end + 1 /\ Len(slots) < max_slots

OuterCond == current <= dr.end /\ Len(slots) < max_slots

\* the inner loop without its limit on the number of slots
InnerCond_NoLimit == slot_start < day_end

InnerCond == slot_start < day_end /\ Len(slots) < max_slots

\* line 134 true, lines 136-146
OuterEnter ==
  /\ pc = "outer" /\ OuterCond
  /\ slot_start' = day_start
  /\ pc' = "inner"
  /\ outcome' = "none"
  /\ UNCHANGED <<avail, max_slots, current, slots, result, round, first, service, threads>>

\* line 134 false
OuterExit ==
  /\ pc = "outer" /\ ~OuterCond
  /\ pc' = "return"
  /\ UNCHANGED <<avail, max_slots, current, slot_start, slots, result, outcome, round, first, service, threads>>

\* line 147 false
InnerExit ==
  /\ pc = "inner" /\ ~InnerCond
  /\ pc' = "advance"
  /\ UNCHANGED <<avail, max_slots, current, slot_start, slots, result, outcome, round, first, service, threads>>

\* lines 150-151: the trailing partial period ends the day
BreakPartial ==
  /\ pc = "inner" /\ InnerCond
  /\ PartialPeriod
  /\ pc' = "advance"
  /\ outcome' = "partial"
  /\ UNCHANGED <<avail, max_slots, current, slot_start, slots, result, round, first, service, threads>>

\* a rejected step moves on by five minutes
Reject_FinerStep(why) ==
  /\ slot_start' = slot_start + 5
  /\ outcome' = why
  /\ UNCHANGED <<avail, max_slots, pc, current, slots, result, round, first, service, threads>>

\* a rejected candidate: slot_start = slot_end, then continue
Reject(why) ==
  /\ slot_start' = slot_end
  /\ outcome' = why
  /\ UNCHANGED <<avail, max_slots, pc, current, slots, result, round, first, service, threads>>

PassDay == day_in_preferred_days(slot_start, preferred_days)
PassTime == datetime_in_preferred_times(slot_start, preferred_times)
PassConflict == ~conflicts_with_existing(tz, slot_start, slot_end, existing)
PassBuffer == respects_buffer(tz, slot_start, slot_end, existing, buffer_mins)

\* lines 154-156
RejectDay ==
  /\ pc = "inner" /\ InnerCond /\ ~PartialPeriod
  /\ ~PassDay
  /\ Reject("day")

\* lines 159-161
RejectTime ==
  /\ pc = "inner" /\ InnerCond /\ ~PartialPeriod
  /\ PassDay /\ ~PassTime
  /\ Reject("time")

\* lines 164-166
RejectConflict ==
  /\ pc = "inner" /\ InnerCond /\ ~PartialPeriod
  /\ PassDay /\ PassTime /\ ~PassConflict
  /\ Reject("conflict")

\* lines 169-173
RejectBuffer ==
  /\ pc = "inner" /\ InnerCond /\ ~PartialPeriod
  /\ PassDay /\ PassTime /\ PassConflict /\ ~PassBuffer
  /\ Reject("buffer")

\* lines 175-180
Emit ==
  /\ pc = "inner" /\ InnerCond /\ ~PartialPeriod
  /\ PassDay /\ PassTime /\ PassConflict /\ PassBuffer
  /\ slots' = Append(slots, [start_iso |-> IsoFormat(tz, slot_start),
                             end_iso |-> IsoFormat(tz, slot_end),
                             provider_id |-> avail.provider_id])
  /\ slot_start' = slot_end
  /\ outcome' = "emit"
  /\ UNCHANGED <<avail, max_slots, pc, current, result, round, first, service, threads>>

\* the day is tried again
NextDay_SameDay ==
  /\ pc = "advance"
  /\ pc' = "outer"
  /\ UNCHANGED <<avail, max_slots, current, slot_start, slots, result, outcome, round, first, service, threads>>

\* line 182
NextDay ==
  /\ pc = "advance"
  /\ current' = current + 1
  /\ pc' = "outer"
  /\ UNCHANGED <<avail, max_slots, slot_start, slots, result, outcome, round, first, service, threads>>

\* line 184
Return ==
  /\ pc = "return"
  /\ result' = Slice(slots, max_slots)
  /\ pc' = "done"
  /\ UNCHANGED <<avail, max_slots, current, slot_start, slots, outcome, round, first, service, threads>>

\* the caller books every returned slot (start = start_iso, end = end_iso) and
\* calls compute_slots again with the same record otherwise
AsAppointments(r) == [i \in 1..Len(r) |-> Appt(r[i].start_iso, r[i].end_iso)]

CallAgain ==
  /\ pc = "done" /\ round = 1
  /\ avail' = [avail EXCEPT !.existing_appointments = @ \o AsAppointments(result)]
  /\ first' = result
  /\ round' = 2
  /\ max_slots' \in 0..MaxSlotsBound
  /\ pc' = "outer"
  /\ current' = avail.date_range.start
  /\ slot_start' = 0
  /\ slots' = <<>>
  /\ result' = <<>>
  /\ outcome' = "none"
  /\ UNCHANGED <<service, threads>>

\* the caller calls compute_slots again with the same record and max_slots + 1
CallMore ==
  /\ pc = "done" /\ round = 1
  /\ max_slots >= 0
  /\ first' = result
  /\ round' = 3
  /\ max_slots' = max_slots + 1
  /\ pc' = "outer"
  /\ current' = avail.date_range.start
  /\ slot_start' = 0
  /\ slots' = <<>>
  /\ result' = <<>>
  /\ outcome' = "none"
  /\ UNCHANGED <<avail, service, threads>>

Malformed(a) == ~(Parses(a.start) /\ Parses(a.end))

WithoutMalformed(apps) == SelectSeq(apps, LAMBDA a : ~Malformed(a))

\* the caller calls compute_slots again with the unparseable appointments
\* taken out of the record
CallWithout ==
  /\ pc = "done" /\ round = 1
  /\ \E i \in 1..Len(existing) : Malformed(existing[i])
  /\ avail' = [avail EXCEPT !.existing_appointments = WithoutMalformed(@)]
  /\ first' = result
  /\ round' = 4
  /\ pc' = "outer"
  /\ current' = avail.date_range.start
  /\ slot_start' = 0
  /\ slots' = <<>>
  /\ result' = <<>>
  /\ outcome' = "none"
  /\ UNCHANGED <<max_slots, service, threads>>

Next ==
  \/ OuterEnter
  \/ OuterExit
  \/ InnerExit
  \/ BreakPartial
  \/ RejectDay
  \/ RejectTime
  \/ RejectConflict
  \/ RejectBuffer
  \/ Emit
  \/ NextDay
  \/ Return
  \/ CallAgain
  \/ CallMore
  \/ CallWithout

Spec == Init /\ [][Next]_vars

\* one call of compute_slots: the steps of the function itself, and a call
\* that has started keeps running until it returns
Compute ==
  \/ OuterEnter
  \/ OuterExit
  \/ InnerExit
  \/ BreakPartial
  \/ RejectDay
  \/ RejectTime
  \/ RejectConflict
  \/ RejectBuffer
  \/ Emit
  \/ NextDay
  \/ Return

SpecRunning == Init /\ [][Compute]_vars /\ WF_vars(Compute)

----------------------------------------------------------------------------
(* compute_slots as a function of its arguments, and concurrent invocations *)

\* the locals of an invocation on entry, lines 118-131
Enter(av, n) ==
  [avail |-> av, max_slots |-> n, pc |-> "outer",
   current |-> av.date_range.start, slot_start |-> 0, result |-> <<>>]

\* one step of the invocation whose locals are c and whose list `slots` is sl
StepCall(c, sl) ==
  LET av == c.avail
      hours == av.business_hours
      opening == MkLocal(c.current, parse_time(hours.start)[1], parse_time(hours.start)[2]).w
      closing == MkLocal(c.current, parse_time(hours.end)[1], parse_time(hours.end)[2]).w
      s == c.slot_start
      e == s + av.slot_length_minutes
      room == Len(sl) < c.max_slots
      keep == [c |-> c, slots |-> sl]
  IN  CASE c.pc = "outer" ->
             IF c.current <= av.date_range.end /\ room
             THEN [keep EXCEPT !.c.pc = "inner", !.c.slot_start = opening]
             ELSE [keep EXCEPT !.c.pc = "return"]
        [] c.pc = "inner" ->
             IF ~(s < closing /\ room) \/ e > closing
             THEN [keep EXCEPT !.c.pc = "advance"]
             ELSE IF /\ day_in_preferred_days(s, av.preferred_days)
                     /\ datetime_in_preferred_times(s, av.preferred_times)
                     /\ ~conflicts_with_existing(av.timezone, s, e, av.existing_appointments)
                     /\ respects_buffer(av.timezone, s, e, av.existing_appointments,
                                        av.buffer_minutes)
                  THEN [c |-> [c EXCEPT !.slot_start = e],
                        slots |-> Append(sl, [start_iso |-> IsoFormat(av.timezone, s),
                                              end_iso |-> IsoFormat(av.timezone, e),
                                              provider_id |-> av.provider_id])]
                  ELSE [keep EXCEPT !.c.slot_start = e]
        [] c.pc = "advance" ->
             [keep EXCEPT !.c.current = @ + 1, !.c.pc = "outer"]
        [] c.pc = "return" ->
             [keep EXCEPT !.c.result = Slice(sl, c.max_slots), !.c.pc = "done"]
        [] OTHER -> keep

RECURSIVE RunAlone(_, _)
\* the invocation run from locals c and list sl to its return, nothing in between
RunAlone(c, sl) ==
  IF c.pc = "done"
  THEN c.result
  ELSE LET n == StepCall(c, sl) IN RunAlone(n.c, n.slots)

compute_slots(av, n) == RunAlone(Enter(av, n), <<>>)

\* number of invocations running at the same time
NumCalls == 2

Procs == 1..NumCalls

\* the records the concurrent invocations are given
ConcurrentInputs ==
  { [provider_id |-> "dr-smith",
     timezone |-> "America/New_York",
     slot_length_minutes |-> len,
     buffer_minutes |-> 10,
     business_hours |-> TimeRange(T(2, 0), T(4, 0)),
     date_range |-> [start |-> SpringForwardDay, end |-> SpringForwardDay],
     existing_appointments |-> ex,
     preferred_days |-> <<0, 6>>,
     preferred_times |-> <<>>] :
    len \in {30, 40}, ex \in { <<>>, <<ApptSpringLocal>> } }

\* every invocation appends to one and the same list
Cell_Shared(p) == 1

\* line 132: each invocation binds `slots` to a new list of its own
Cell(p) == p

\* no call of compute_slots alone, no request
EngineIdle ==
  /\ max_slots = 0
  /\ pc = "idle"
  /\ current = 0
  /\ slot_start = 0
  /\ slots = <<>>
  /\ outcome = "none"
  /\ round = 0
  /\ first = <<>>

\* a record not bound to any availability yet
Unbound ==
  [provider_id |-> "",
   timezone |-> "UTC",
   slot_length_minutes |-> 30,
   buffer_minutes |-> 10,
   business_hours |-> TimeRange(T(9, 0), T(17, 0)),
   date_range |-> [start |-> 0, end |-> 0],
   existing_appointments |-> <<>>,
   preferred_days |-> Weekdays,
   preferred_times |-> <<>>]

InitConcurrent ==
  /\ EngineIdle
  /\ avail = Unbound
  /\ result = <<>>
  /\ ServiceIdle("threads")
  /\ calls \in [Procs -> { Enter(av, MaxSlotsBound) : av \in ConcurrentInputs }]
  /\ lists = [p \in Procs |-> <<>>]

\* invocation p takes its next step
StepOf(p) ==
  /\ calls[p].pc \notin {"return", "done"}
  /\ LET n == StepCall(calls[p], lists[Cell(p)]) IN
       /\ calls' = [calls EXCEPT ![p] = n.c]
       /\ lists' = [lists EXCEPT ![Cell(p)] = n.slots]
  /\ UNCHANGED <<avail, max_slots, pc, current, slot_start, slots, result,
                 outcome, round, first, service>>

\* invocation p returns, line 184
ReturnOf(p) ==
  /\ calls[p].pc = "return"
  /\ LET n == StepCall(calls[p], lists[Cell(p)]) IN
       /\ calls' = [calls EXCEPT ![p] = n.c]
       /\ lists' = [lists EXCEPT ![Cell(p)] = n.slots]
  /\ UNCHANGED <<avail, max_slots, pc, current, slot_start, slots, result,
                 outcome, round, first, service>>

NextConcurrent ==
  \/ \E p \in Procs : StepOf(p)
  \/ \E p \in Procs : ReturnOf(p)

SpecConcurrent == InitConcurrent /\ [][NextConcurrent]_vars

----------------------------------------------------------------------------
(* The language-model client (app/llm.py) and POST /suggest (app/main.py) *)

\* main.py line 60
SuggestMaxSlots == 5

\* longest JSON list the model answers with
MaxAnswerLen == 6

\* An explanation is a text made of a wording, a provider name and a numeral;
\* t tells a JSON string from a JSON number.
Str(e) == [e EXCEPT !.t = "str"]

StrItem(i) == [t |-> "str", text |-> "reason", who |-> "", id |-> i]

NumItem(i) == [t |-> "num", text |-> "", who |-> "", id |-> i]

\* llm.py lines 150 and 155
Generic(av) ==
  [t |-> "str",
   text |-> "Slot fits within business hours and preferred times for provider",
   who |-> av.provider_id, id |-> 0]

\* main.py line 87
DefaultExplanation == [t |-> "str", text |-> "Slot fits availability.", who |-> "", id |-> 0]

\* A text handed to json.loads is a record [kind, items, data]: "not_json" is
\* rejected by the decoder, "list" decodes to items, "object" to data, "scalar"
\* to a number, string or null; "absent" stands for no text at all.
Doc(kind, items, data) == [kind |-> kind, items |-> items, data |-> data]

NotJson == Doc("not_json", <<>>, Unbound)

Absent == Doc("absent", <<>>, Unbound)

JsonScalar == Doc("scalar", <<>>, Unbound)

JsonList(items) == Doc("list", items, Unbound)

JsonObject(data) == Doc("object", <<>>, data)

\* The content of a model answer, read as _extract_json reads it: the inside
\* of its first fenced block, the span from its first "{" to its last "}",
\* and the whole text.
Raw(f, b, w) == [fenced |-> f, braces |-> b, whole |-> w]

NoText == Raw(Absent, Absent, Absent)

\* llm.py lines 53-62
extract_json(raw) ==
  IF raw.fenced.kind # "absent" THEN raw.fenced
  ELSE IF raw.braces.kind # "absent" THEN raw.braces
  ELSE raw.whole

\* schema.py lines 37-38, the constraints an object can break in the model
Validates(doc) ==
  /\ doc.kind = "object"
  /\ doc.data.slot_length_minutes >= 5 /\ doc.data.slot_length_minutes <= 120
  /\ doc.data.buffer_minutes >= 0 /\ doc.data.buffer_minutes <= 60

\* StructuredAvailability.model_validate on a decoded object that validates
model_validate(doc) == doc.data

\* what json.loads followed by model_validate raises, llm.py lines 95-96
DecodeError(doc) ==
  IF doc.kind = "not_json" THEN "JSONDecodeError"
  ELSE IF ~Validates(doc) THEN "ValidationError"
  ELSE "none"

\* only a text that does not decode is repaired
Caught_DecodeOnly(exc) == exc = "JSONDecodeError"

\* llm.py line 97
Caught(exc) == exc \in {"JSONDecodeError", "ValidationError"}

\* json.JSONDecodeError and pydantic's ValidationError are ValueErrors
IsValueError(exc) == exc \in {"ValueError", "JSONDecodeError", "ValidationError"}

\* every failure is answered 503
StatusOf_Unavailable(exc) == 503

\* main.py lines 49-57 and 72-80
StatusOf(exc) == IF IsValueError(exc) THEN 503 ELSE 502

\* every item of a long enough list is kept
explanations_of_Untruncated(doc, sl, av) ==
  IF doc.kind = "list" /\ Len(doc.items) >= Len(sl)
  THEN [i \in 1..Len(doc.items) |-> Str(doc.items[i])]
  ELSE [i \in 1..Len(sl) |-> Generic(av)]

\* llm.py lines 144-157
explanations_of(doc, sl, av) ==
  IF doc.kind = "list" /\ Len(doc.items) >= Len(sl)
  THEN [i \in 1..Len(sl) |-> Str(doc.items[i])]
  ELSE [i \in 1..Len(sl) |-> Generic(av)]

\* the records a request or a model answer carries
ApiAvailabilities ==
  { [provider_id |-> "dr-smith", timezone |-> "UTC", slot_length_minutes |-> 30,
     buffer_minutes |-> 10, business_hours |-> DayHours,
     date_range |-> [start |-> 0, end |-> 0],
     existing_appointments |-> <<ApptMonday>>,
     preferred_days |-> Weekdays, preferred_times |-> <<>>],
    [provider_id |-> "dr-jones", timezone |-> "America/New_York",
     slot_length_minutes |-> 40, buffer_minutes |-> 0,
     business_hours |-> TimeRange(T(2, 0), T(4, 0)),
     date_range |-> [start |-> SpringForwardDay, end |-> SpringForwardDay],
     existing_appointments |-> <<>>,
     preferred_days |-> <<0, 6>>, preferred_times |-> <<>>],
    [provider_id |-> "dr-smith", timezone |-> "UTC", slot_length_minutes |-> 30,
     buffer_minutes |-> 10, business_hours |-> DayHours,
     date_range |-> [start |-> 5, end |-> 5],
     existing_appointments |-> <<>>,
     preferred_days |-> Weekdays, preferred_times |-> <<>>] }

\* an object that breaks slot_length_minutes >= 5
InvalidObject ==
  JsonObject([Unbound EXCEPT !.provider_id = "dr-smith", !.slot_length_minutes = 3])

AnswerObjects == { JsonObject(av) : av \in ApiAvailabilities } \cup {InvalidObject}

AnswerLists ==
  { JsonList([i \in 1..m |-> StrItem(i)]) : m \in 0..MaxAnswerLen }
    \cup { JsonList([i \in 1..MaxAnswerLen |-> NumItem(i)]) }

\* bare JSON, an object alone or inside prose, a list whose items hold braces,
\* a fenced block inside prose, and a fenced block before an object
RawTexts ==
  { Raw(Absent, Absent, d) : d \in {NotJson, JsonScalar} \cup AnswerLists }
    \cup { Raw(Absent, d, d) : d \in AnswerObjects }
    \cup { Raw(Absent, d, NotJson) : d \in AnswerObjects }
    \cup { Raw(Absent, NotJson, JsonList([i \in 1..MaxAnswerLen |-> StrItem(i)])) }
    \cup { Raw(d, Absent, NotJson) : d \in AnswerObjects \cup AnswerLists \cup {NotJson} }
    \cup { Raw(JsonList(<<StrItem(1), StrItem(2)>>), InvalidObject, NotJson) }

\* llm.py lines 29-48: _chat raises ValueError without a key, else the request
\* fails with HTTPStatusError or the content of the answer is returned
ChatOutcomes ==
  IF ~api_key
  THEN { [exc |-> "ValueError", raw |-> NoText] }
  ELSE { [exc |-> "HTTPStatusError", raw |-> NoText] }
         \cup { [exc |-> "none", raw |-> r] : r \in RawTexts }

Prompt(kind) == [role |-> "user", kind |-> kind, raw |-> NoText]

Reply(raw) == [role |-> "assistant", kind |-> "reply", raw |-> raw]

\* one call of _chat: who made it, the messages it was given, what came back
ChatCall(by, msgs, o) == [by |-> by, messages |-> msgs, outcome |-> o]

\* `not x` of an Optional[str]
Truthy(opt) == opt # <<>> /\ opt[1] # ""

\* schema.py lines 69-73
require_one_source(req) ==
  Truthy(req.availability_text) \/ req.structured_availability # <<>>

\* the text is preferred when there is one
UsesStructured_UnlessText(req) ==
  req.structured_availability # <<>> /\ ~Truthy(req.availability_text)

\* main.py line 38
UsesStructured(req) == req.structured_availability # <<>>

Requests ==
  { [availability_text |-> t, structured_availability |-> sa] :
      t \in { <<>>, <<"">>, <<"weekday mornings next week">> },
      sa \in { <<>> } \cup { <<av>> : av \in ApiAvailabilities } }

\* a POST /suggest has been received, or explain_slots is called on its own
InitService ==
  /\ EngineIdle
  /\ ThreadsIdle
  /\ entry \in {"suggest", "explain_slots"}
  /\ api_key \in BOOLEAN
  /\ IF entry = "suggest"
     THEN /\ request \in Requests
          /\ handler = "received"
          /\ avail = Unbound
          /\ result = <<>>
     ELSE /\ request = NoRequest
          /\ handler = "explain"
          /\ avail \in ApiAvailabilities
          /\ result \in { compute_slots(avail, k) : k \in 0..2 }
  /\ messages = <<>>
  /\ chat_log = <<>>
  /\ invoked = [parse_availability_text |-> 0, explain_slots |-> 0]
  /\ explanations = <<>>
  /\ raised = "none"
  /\ response = NoResponse

\* variables no step of the service touches
untouched == <<max_slots, pc, current, slot_start, slots, outcome, round, first, threads>>

\* the exception leaves suggest as an HTTPException
Fail(exc) ==
  /\ raised' = exc
  /\ response' = [status |-> StatusOf(exc), slots |-> <<>>]
  /\ handler' = "responded"

\* schema.py lines 69-73 and main.py lines 41-45
RejectRequest ==
  /\ handler = "received"
  /\ \/ ~require_one_source(request)
     \/ ~UsesStructured(request) /\ ~Truthy(request.availability_text)
  /\ response' = [status |-> 422, slots |-> <<>>]
  /\ handler' = "responded"
  /\ UNCHANGED <<avail, result, entry, request, api_key, messages, chat_log,
                 invoked, explanations, raised, untouched>>

\* main.py lines 38-39
UseStructured ==
  /\ handler = "received"
  /\ require_one_source(request)
  /\ UsesStructured(request)
  /\ avail' = request.structured_availability[1]
  /\ handler' = "schedule"
  /\ UNCHANGED <<result, entry, request, api_key, messages, chat_log, invoked,
                 explanations, raised, response, untouched>>

\* main.py lines 46-57 with llm.py lines 90-106: the first call of the model
ParseAvailabilityText ==
  /\ handler = "received"
  /\ require_one_source(request)
  /\ ~UsesStructured(request)
  /\ Truthy(request.availability_text)
  /\ invoked' = [invoked EXCEPT !.parse_availability_text = @ + 1]
  /\ \E o \in ChatOutcomes :
       LET msgs == <<Prompt("parse")>>
           err == DecodeError(extract_json(o.raw))
       IN  /\ chat_log' = Append(chat_log, ChatCall("parse_availability_text", msgs, o))
           /\ IF o.exc # "none"
              THEN /\ messages' = msgs
                   /\ Fail(o.exc)
                   /\ UNCHANGED avail
              ELSE IF err = "none"
              THEN /\ messages' = msgs
                   /\ avail' = model_validate(extract_json(o.raw))
                   /\ handler' = "schedule"
                   /\ UNCHANGED <<raised, response>>
              ELSE IF Caught(err)
              THEN /\ messages' = msgs \o <<Reply(o.raw), Prompt("repair")>>
                   /\ handler' = "repair"
                   /\ UNCHANGED <<avail, raised, response>>
              ELSE /\ messages' = msgs
                   /\ Fail(err)
                   /\ UNCHANGED avail
  /\ UNCHANGED <<result, entry, request, api_key, explanations, untouched>>

\* llm.py lines 107-110 with main.py lines 49-57: the call after the repair prompt
ParseRepair ==
  /\ handler = "repair"
  /\ \E o \in ChatOutcomes :
       LET err == DecodeError(extract_json(o.raw))
       IN  /\ chat_log' = Append(chat_log, ChatCall("parse_availability_text", messages, o))
           /\ IF o.exc # "none"
              THEN /\ Fail(o.exc)
                   /\ UNCHANGED avail
              ELSE IF err = "none"
              THEN /\ avail' = model_validate(extract_json(o.raw))
                   /\ handler' = "schedule"
                   /\ UNCHANGED <<raised, response>>
              ELSE /\ Fail(err)
                   /\ UNCHANGED avail
  /\ UNCHANGED <<result, entry, request, api_key, messages, invoked, explanations,
                 untouched>>

\* main.py lines 60-66
Schedule ==
  /\ handler = "schedule"
  /\ result' = compute_slots(avail, SuggestMaxSlots)
  /\ IF result' = <<>>
     THEN /\ response' = [status |-> 200, slots |-> <<>>]
          /\ handler' = "responded"
     ELSE /\ handler' = "explain"
          /\ UNCHANGED response
  /\ UNCHANGED <<avail, entry, request, api_key, messages, chat_log, invoked,
                 explanations, raised, untouched>>

\* llm.py lines 120-157 with main.py lines 69-80
ExplainSlots ==
  /\ handler = "explain"
  /\ invoked' = [invoked EXCEPT !.explain_slots = @ + 1]
  /\ IF result = <<>>
     THEN /\ explanations' = <<>>
          /\ handler' = IF entry = "suggest" THEN "respond" ELSE "returned"
          /\ UNCHANGED <<chat_log, raised, response>>
     ELSE \E o \in ChatOutcomes :
            /\ chat_log' = Append(chat_log,
                                  ChatCall("explain_slots", <<Prompt("explain")>>, o))
            /\ IF o.exc # "none"
               THEN /\ UNCHANGED explanations
                    /\ IF entry = "suggest"
                       THEN Fail(o.exc)
                       ELSE /\ raised' = o.exc
                            /\ handler' = "raised"
                            /\ UNCHANGED response
               ELSE /\ explanations' = explanations_of(extract_json(o.raw), result, avail)
                    /\ handler' = IF entry = "suggest" THEN "respond" ELSE "returned"
                    /\ UNCHANGED <<raised, response>>
  /\ UNCHANGED <<avail, result, entry, request, api_key, messages, untouched>>

\* main.py lines 82-95
Respond ==
  /\ handler = "respond"
  /\ response' =
       [status |-> 200,
        slots |-> [i \in 1..Len(result) |->
                     [start_iso |-> result[i].start_iso,
                      end_iso |-> result[i].end_iso,
                      provider_id |-> result[i].provider_id,
                      explanation |-> IF i <= Len(explanations)
                                      THEN explanations[i]
                                      ELSE DefaultExplanation]]]
  /\ handler' = "responded"
  /\ UNCHANGED <<avail, result, entry, request, api_key, messages, chat_log,
                 invoked, explanations, raised, untouched>>

NextService ==
  \/ RejectRequest
  \/ UseStructured
  \/ ParseAvailabilityText
  \/ ParseRepair
  \/ Schedule
  \/ ExplainSlots
  \/ Respond

SpecService == InitService /\ [][NextService]_vars

----------------------------------------------------------------------------
(* Reading the returned list *)

Range(s) == { s[i] : i \in 1..Len(s) }

\* both timestamps parse and the start is before the end
WellFormedAppt(a) ==
  /\ Parses(a.start) /\ Parses(a.end)
  /\ DtLt(tz, FromIso(a.start), FromIso(a.end))

\* the datetimes of a returned slot, in the availability's timezone
SlotStart(sl) == Local(sl.start_iso.w)
SlotEnd(sl) == Local(sl.end_iso.w)

\* the instants its two ISO strings denote
StartInstant(sl) == ToUtc(tz, FromIso(sl.start_iso))
EndInstant(sl) == ToUtc(tz, FromIso(sl.end_iso))

\* local calendar day and local minute of the day of a wall-clock reading
DayOf(w) == w \div MinutesPerDay

Minutes(t) == parse_time(t)[1] * 60 + parse_time(t)[2]

\* every slot collected so far and every slot returned
Offered == Range(slots) \cup Range(result)

----------------------------------------------------------------------------
(* C1 *)

ClearOf(sl, a) ==
  /\ ~(DtLt(tz, SlotStart(sl), FromIso(a.end)) /\ DtLt(tz, FromIso(a.start), SlotEnd(sl)))
  /\ buffer_mins > 0 =>
       \/ DtDiff(tz, FromIso(a.start), SlotEnd(sl)) >= buffer_mins
       \/ DtDiff(tz, SlotStart(sl), FromIso(a.end)) >= buffer_mins

----------------------------------------------------------------------------
(* C2 *)

\* C2 as stated: for every integer max_slots the collected list and the
\* returned list never hold more than max_slots slots.
C2_AtMostMaxSlots_AnyInteger ==
  /\ Len(slots) <= max_slots
  /\ pc = "done" => Len(result) <= max_slots

\* C2 amended: the same for every max_slots >= 0; a negative max_slots
\* yields the empty list.
C2_AtMostMaxSlots ==
  /\ max_slots >= 0 => (Len(slots) <= max_slots /\ Len(result) <= max_slots)
  /\ max_slots < 0 => (slots = <<>> /\ result = <<>>)

\* the limit was reached while dates and times were still left to evaluate
C2_Witness ==
  /\ pc = "done" /\ max_slots >= 1 /\ Len(result) = max_slots
  /\ current <= dr.end /\ slot_start + slot_mins <= day_end

----------------------------------------------------------------------------
(* C3 *)

\* C3: the returned slots are in chronological order and consecutive slots
\* never overlap: end(i) <= start(i+1) and start(i) <= start(i+1).
C3_ChronologicalOrder ==
  pc = "done" =>
    \A i \in 1..(Len(result) - 1) :
      /\ EndInstant(result[i]) <= StartInstant(result[i + 1])
      /\ StartInstant(result[i]) <= StartInstant(result[i + 1])

----------------------------------------------------------------------------
(* C4 *)

\* C4: every returned slot lasts exactly slot_length_minutes (end - start of
\* its two timestamps).
C4_ExactDuration ==
  \A sl \in Offered : EndInstant(sl) - StartInstant(sl) = slot_mins

----------------------------------------------------------------------------
(* C5 *)

\* C5: every slot lies inside the business hours of its own calendar day:
\* local start >= business_hours.start and local end <= business_hours.end,
\* so the trailing partial period of a day yields no slot.
C5_InsideBusinessHours ==
  \A sl \in Offered :
    LET d == DayOf(sl.start_iso.w)
    IN  /\ DayOf(sl.end_iso.w) = d
        /\ MinuteOfDay(sl.start_iso.w) >= Minutes(bh.start)
        /\ MinuteOfDay(sl.end_iso.w) <= Minutes(bh.end)

\* a day ended on a trailing partial period after a slot had been emitted
C5_Witness ==
  /\ outcome = "partial" /\ Len(slots) >= 1
  /\ slot_start < day_end /\ day_end < slot_start + slot_mins

----------------------------------------------------------------------------
(* C6 *)

NoPreferredDayInRange ==
  \A d \in dr.start..dr.end : \A i \in 1..Len(preferred_days) :
    preferred_days[i] # Weekday(d)

\* C6: every slot falls on a local weekday that is in preferred_days, and a
\* date range made of non-preferred weekdays only yields an empty result.
C6_PreferredWeekday ==
  /\ \A sl \in Offered :
       \E i \in 1..Len(preferred_days) :
         preferred_days[i] = Weekday(DayOf(sl.start_iso.w))
  /\ (pc = "done" /\ NoPreferredDayInRange) => result = <<>>

\* a slot was returned on a preferred day after a non-preferred day was passed over
C6_Witness ==
  /\ pc = "done" /\ Len(result) >= 1
  /\ DayOf(result[1].start_iso.w) > dr.start
  /\ \A i \in 1..Len(preferred_days) : preferred_days[i] # Weekday(dr.start)

----------------------------------------------------------------------------
(* C7 *)

StartInWindow(sl, tr) ==
  /\ Minutes(tr.start) <= MinuteOfDay(sl.start_iso.w)
  /\ MinuteOfDay(sl.start_iso.w) < Minutes(tr.end)

\* C7: with preferred_times non-empty every slot starts inside one preferred
\* window; with preferred_times empty no step is rejected for its time.
C7_StartInPreferredWindow ==
  /\ preferred_times # <<>> =>
       \A sl \in Offered : \E tr \in Range(preferred_times) : StartInWindow(sl, tr)
  /\ preferred_times = <<>> => outcome # "time"

\* a step was rejected for its time after a slot inside a window had been emitted
C7_Witness ==
  /\ preferred_times # <<>> /\ Len(slots) >= 1 /\ outcome = "time"

----------------------------------------------------------------------------
(* C8 *)

\* C8 as stated: with preferred_times non-empty the whole interval of every
\* slot lies inside one preferred window.
C8_WholeSlotInWindow ==
  preferred_times # <<>> =>
    \A sl \in Offered : \E tr \in Range(preferred_times) :
      /\ Minutes(tr.start) <= MinuteOfDay(sl.start_iso.w)
      /\ MinuteOfDay(sl.end_iso.w) <= Minutes(tr.end)

\* C8 amended: with preferred_times non-empty every slot starts inside one
\* preferred window and ends less than slot_length_minutes after that
\* window's end.
C8_SlotOverrunsWindowByLessThanOneSlot ==
  preferred_times # <<>> =>
    \A sl \in Offered : \E tr \in Range(preferred_times) :
      /\ StartInWindow(sl, tr)
      /\ MinuteOfDay(sl.end_iso.w) - Minutes(tr.end) < slot_mins

\* a returned slot starts inside a window and ends after it
C8_Witness ==
  /\ pc = "done" /\ preferred_times # <<>>
  /\ \E sl \in Range(result) : \E tr \in Range(preferred_times) :
       /\ StartInWindow(sl, tr)
       /\ MinuteOfDay(sl.end_iso.w) > Minutes(tr.end)

----------------------------------------------------------------------------
(* C9 *)

\* 2025-02-03, UTC, 09:00-17:00, slot 30, buffer 10, Monday-Friday, no
\* preferred times, one appointment 10:00-10:30
Scenario ==
  [provider_id |-> "dr-smith",
   timezone |-> "UTC",
   slot_length_minutes |-> 30,
   buffer_minutes |-> 10,
   business_hours |-> DayHours,
   date_range |-> [start |-> 0, end |-> 0],
   existing_appointments |-> <<ApptMonday>>,
   preferred_days |-> Weekdays,
   preferred_times |-> <<>>]

At(hh, mm) == hh * 60 + mm

ScenarioSlot(w) ==
  [start_iso |-> [k |-> "offset", w |-> w, off |-> 0],
   end_iso |-> [k |-> "offset", w |-> w + 30, off |-> 0],
   provider_id |-> "dr-smith"]

\* the step that ended at wall-clock minute w has just been decided
Decided(w) == current = 0 /\ outcome # "none" /\ slot_start = w

\* C9: in the scenario the step 09:00 is emitted, 09:30 is rejected by the
\* buffer, 10:00 by the overlap, 10:30 by the buffer, 11:00 is the next slot
\* emitted, and every slot starts on the 30-minute grid from 09:00.
C9_ScenarioSteps ==
  avail = Scenario =>
    /\ Decided(At(9, 30)) => (outcome = "emit" /\ slots = <<ScenarioSlot(At(9, 0))>>)
    /\ Decided(At(10, 0)) => (outcome = "buffer" /\ Len(slots) = 1)
    /\ Decided(At(10, 30)) => (outcome = "conflict" /\ Len(slots) = 1)
    /\ Decided(At(11, 0)) => (outcome = "buffer" /\ Len(slots) = 1)
    /\ Decided(At(11, 30)) =>
         (outcome = "emit" /\ slots = <<ScenarioSlot(At(9, 0)), ScenarioSlot(At(11, 0))>>)
    /\ \A sl \in Offered : (sl.start_iso.w - At(9, 0)) % 30 = 0
    /\ (pc = "done" /\ max_slots >= 2) =>
         SubSeq(result, 1, 2) = <<ScenarioSlot(At(9, 0)), ScenarioSlot(At(11, 0))>>

\* the scenario ran to its end and returned 09:00-09:30 and 11:00-11:30
C9_Witness ==
  /\ avail = Scenario /\ pc = "done" /\ Len(result) >= 2
  /\ result[2] = ScenarioSlot(At(11, 0))

----------------------------------------------------------------------------
(* C10 *)

InstantsOverlap(a, b) ==
  /\ StartInstant(a) < EndInstant(b)
  /\ StartInstant(b) < EndInstant(a)

\* C10: once the slots of a first call are booked as existing appointments, a
\* second call with the same record offers no slot that equals or overlaps
\* one of them.
C10_NoReoffer ==
  round = 2 =>
    \A sl \in Offered : \A r \in Range(first) :
      sl # r /\ ~InstantsOverlap(sl, r)

----------------------------------------------------------------------------
(* C11 *)

FirstN(s, n) == SubSeq(s, 1, IF n < Len(s) THEN n ELSE Len(s))

\* C11: for k >= 0 the list returned for max_slots = k is the first k elements
\* of the list returned for max_slots = k + 1, and once max_slots slots are
\* collected no further step is decided and no further date is entered.
C11_PrefixAndEarlyExit ==
  /\ [](round = 3 /\ pc = "done" => first = FirstN(result, max_slots - 1))
  /\ [][(max_slots >= 0 /\ Len(slots) >= max_slots /\ pc # "done") =>
          /\ slots' = slots /\ slot_start' = slot_start /\ outcome' = outcome
          /\ pc' # "inner"]_vars

\* the call with k + 1 returned one slot more than the call with k >= 1
C11_Witness ==
  /\ round = 3 /\ pc = "done"
  /\ Len(first) >= 1 /\ Len(result) = Len(first) + 1

----------------------------------------------------------------------------
(* C12 *)

\* C12: the call on the record without its unparseable appointments returns
\* the list the call on the whole record returned.
C12_MalformedIgnored ==
  (round = 4 /\ pc = "done") => result = first

\* both calls returned the same two slots, which a parseable appointment of
\* the record keeps apart
C12_Witness ==
  /\ round = 4 /\ pc = "done" /\ Len(first) = 2 /\ result = first
  /\ \E a \in Range(existing) :
       /\ DtLe(tz, SlotEnd(result[1]), FromIso(a.start))
       /\ DtLe(tz, FromIso(a.end), SlotStart(result[2]))

----------------------------------------------------------------------------
(* C13 *)

\* C13: when date_range.end is before date_range.start the date loop is never
\* entered and the empty list is returned.
C13_EmptyOnReversedRange ==
  dr.end < dr.start =>
    /\ pc \in {"outer", "return", "done"}
    /\ outcome = "none" /\ slots = <<>> /\ result = <<>>

\* a call with a reversed range, asked for at least one slot, has returned
C13_Witness ==
  /\ dr.end < dr.start /\ pc = "done" /\ max_slots >= 1 /\ result = <<>>

----------------------------------------------------------------------------
(* C14 *)

\* the local day of the step decided last
DecidedDay == DayOf(slot_start - slot_mins)

\* C14: with preferred_days empty the day check behaves as with Monday-Friday:
\* steps are rejected for their day on Saturday and Sunday only, and slots are
\* offered on Monday..Friday only.
C14_EmptyDaysMeanWeekdays ==
  preferred_days = <<>> =>
    /\ outcome = "day" => Weekday(DecidedDay) \notin 0..4
    /\ \A sl \in Offered : Weekday(DayOf(sl.start_iso.w)) \in 0..4

----------------------------------------------------------------------------
(* C15 *)

\* the calls of _chat made by one function, in order
ChatsBy(f) == SelectSeq(chat_log, LAMBDA c : c.by = f)

ParseChats == ChatsBy("parse_availability_text")

ExplainChats == ChatsBy("explain_slots")

\* the answer to a call was a text that does not decode or does not validate
InvalidAnswer(c) ==
  c.outcome.exc = "none" /\ DecodeError(extract_json(c.outcome.raw)) # "none"

\* parse_availability_text has been called and has returned or raised
ParseOver ==
  entry = "suggest" /\ invoked.parse_availability_text = 1
    /\ handler \notin {"received", "repair"}

\* C15: parse_availability_text calls the model once when the first answer
\* decodes and validates (or the call itself fails); it calls it a second time,
\* with the first answer and the repair prompt appended to the first prompt,
\* exactly when the first answer fails JSON decoding or schema validation; it
\* never calls it a third time; when the second answer is invalid too, its
\* error leaves the function (and the request is answered 503).
C15_RetriesExactlyOnce ==
  /\ invoked.parse_availability_text <= 1
  /\ Len(ParseChats) <= 2
  /\ handler = "repair" => Len(ParseChats) = 1 /\ InvalidAnswer(ParseChats[1])
  /\ ParseOver =>
       /\ Len(ParseChats) >= 1
       /\ Len(ParseChats) = 2 <=> InvalidAnswer(ParseChats[1])
       /\ Len(ParseChats) = 2 =>
            /\ ParseChats[1].messages = <<Prompt("parse")>>
            /\ ParseChats[2].messages =
                 <<Prompt("parse"), Reply(ParseChats[1].outcome.raw), Prompt("repair")>>
            /\ InvalidAnswer(ParseChats[2]) =>
                 /\ raised = DecodeError(extract_json(ParseChats[2].outcome.raw))
                 /\ handler = "responded"
                 /\ response = [status |-> 503, slots |-> <<>>]

\* a first answer that breaks the schema, a repaired answer that validates,
\* and the request answered with the slots of the repaired record
C15_Witness ==
  /\ ParseOver /\ Len(ParseChats) = 2
  /\ DecodeError(extract_json(ParseChats[1].outcome.raw)) = "ValidationError"
  /\ ~InvalidAnswer(ParseChats[2]) /\ ParseChats[2].outcome.exc = "none"
  /\ handler = "responded" /\ response.status = 200
  /\ Len(response.slots) = SuggestMaxSlots

----------------------------------------------------------------------------
(* C16 *)

\* explain_slots has been called and has returned
ExplainReturned ==
  invoked.explain_slots = 1 /\ raised = "none"
    /\ handler \in {"respond", "returned", "responded"}

\* the text explain_slots hands to json.loads
ExplainedFrom == extract_json(ExplainChats[1].outcome.raw)

\* C16: whenever explain_slots returns, it returns one explanation per slot:
\* the first len(slots) items (as strings) of a decoded list of at least
\* len(slots) items, len(slots) copies of the generic explanation for a
\* shorter list, another JSON value or a text that does not decode, and the
\* empty list, without calling the model, for no slot.
C16_OneExplanationPerSlot ==
  ExplainReturned =>
    /\ Len(explanations) = Len(result)
    /\ result = <<>> => explanations = <<>> /\ ExplainChats = <<>>
    /\ result # <<>> =>
         /\ Len(ExplainChats) = 1
         /\ \A i \in 1..Len(result) :
              /\ explanations[i].t = "str"
              /\ explanations[i] =
                   IF ExplainedFrom.kind = "list" /\ Len(ExplainedFrom.items) >= Len(result)
                   THEN Str(ExplainedFrom.items[i])
                   ELSE Generic(avail)

\* two slots explained from a longer list of numbers
C16_Witness ==
  /\ ExplainReturned /\ Len(result) = 2 /\ Len(ExplainChats) = 1
  /\ ExplainedFrom.kind = "list" /\ Len(ExplainedFrom.items) > 2
  /\ ExplainedFrom.items[2].t = "num"
  /\ explanations = <<Str(ExplainedFrom.items[1]), Str(ExplainedFrom.items[2])>>

----------------------------------------------------------------------------
(* C17 *)

\* /suggest has called explain_slots for n >= 1 slots and has answered
ExplainedRequest ==
  entry = "suggest" /\ handler = "responded" /\ invoked.explain_slots = 1
    /\ Len(result) >= 1 /\ Len(ExplainChats) = 1

\* the model's answer is not a list of at least n items
BadModelOutput ==
  ExplainChats[1].outcome.exc = "none"
    /\ ~(ExplainedFrom.kind = "list" /\ Len(ExplainedFrom.items) >= Len(result))

ModelHttpError == ExplainChats[1].outcome.exc = "HTTPStatusError"

MissingApiKey == ExplainChats[1].outcome.exc = "ValueError"

\* the response carries the n computed slots, each with the generic explanation
GenericResponse ==
  /\ response.status = 200
  /\ Len(response.slots) = Len(result)
  /\ \A i \in 1..Len(result) :
       response.slots[i] = [start_iso |-> result[i].start_iso,
                            end_iso |-> result[i].end_iso,
                            provider_id |-> result[i].provider_id,
                            explanation |-> Generic(avail)]

\* C17 as stated: when compute_slots produced n >= 1 slots and the explanation
\* step fails by bad model output, a model HTTP error or a missing API key, the
\* response still carries the n slots with generic explanations.
C17_EveryFailureFallsBack ==
  (ExplainedRequest /\ (BadModelOutput \/ ModelHttpError \/ MissingApiKey))
    => GenericResponse

\* C17: when compute_slots produced n >= 1 slots, bad model output is answered
\* with the n slots and generic explanations; a model HTTP error is answered
\* 502 and a missing API key 503, both without any slot.
C17_OnlyBadOutputFallsBack ==
  ExplainedRequest =>
    /\ BadModelOutput => GenericResponse
    /\ ModelHttpError => response = [status |-> 502, slots |-> <<>>]
    /\ MissingApiKey => response = [status |-> 503, slots |-> <<>>]

\* five slots answered with generic explanations after a text that does not
\* decode
C17_Witness ==
  /\ ExplainedRequest /\ BadModelOutput /\ ExplainedFrom.kind = "not_json"
  /\ Len(result) = SuggestMaxSlots /\ GenericResponse

----------------------------------------------------------------------------
(* C18 *)

\* C18: a /suggest request with structured_availability never calls
\* parse_availability_text, with or without availability_text; the scheduler
\* runs on the given record with max_slots = 5; explain_slots is called exactly
\* once when the scheduler returned a slot and never when it returned none.
C18_StructuredSkipsNormalizer ==
  (entry = "suggest" /\ request.structured_availability # <<>>) =>
    /\ invoked.parse_availability_text = 0
    /\ ParseChats = <<>>
    /\ handler \in {"explain", "respond", "responded"} =>
         /\ avail = request.structured_availability[1]
         /\ result = compute_slots(request.structured_availability[1], 5)
         /\ Len(result) <= 5
    /\ handler \in {"received", "schedule", "explain"} => invoked.explain_slots = 0
    /\ handler \in {"respond", "responded"} =>
         invoked.explain_slots = IF result # <<>> THEN 1 ELSE 0

\* both sources given, five of the sixteen periods of the day returned and
\* explained by one call
C18_Witness ==
  /\ entry = "suggest" /\ handler = "responded"
  /\ request.structured_availability # <<>> /\ Truthy(request.availability_text)
  /\ Len(result) = 5 /\ Len(compute_slots(avail, 6)) = 6
  /\ invoked.explain_slots = 1 /\ response.status = 200
  /\ Len(response.slots) = 5

----------------------------------------------------------------------------
(* C19 *)

\* what the steps of invocation p leave alone
OthersKept(p) ==
  \A q \in Procs \ {p} : calls'[q] = calls[q] /\ lists'[Cell(q)] = lists[Cell(q)]

\* C19: under every interleaving, an invocation that has returned has returned
\* the list it returns when run alone; every step changes the locals and the
\* list of one invocation only; and no step changes an input record.
C19_NoInterference ==
  /\ [](\A p \in Procs :
          calls[p].pc = "done" =>
            calls[p].result = compute_slots(calls[p].avail, calls[p].max_slots))
  /\ [][\E p \in Procs : OthersKept(p)]_vars
  /\ [][\A p \in Procs : calls'[p].avail = calls[p].avail]_vars

\* two invocations on different records, both inside their loops, each with a
\* slot collected already
C19_Witness ==
  /\ calls # <<>>
  /\ calls[1].avail # calls[2].avail
  /\ calls[1].pc = "inner" /\ calls[2].pc = "inner"
  /\ Len(lists[Cell(1)]) >= 1 /\ Len(lists[Cell(2)]) >= 1
  /\ lists[Cell(1)] # lists[Cell(2)]

----------------------------------------------------------------------------
(* C20 *)

\* a candidate step is about to be decided
AtCandidate == pc = "inner" /\ InnerCond /\ ~PartialPeriod

EndsTooCloseBefore(a) ==
  /\ DtLe(tz, FromIso(a.end), Local(slot_start))
  /\ DtDiff(tz, Local(slot_start), FromIso(a.end)) < buffer_mins

StartsTooCloseAfter(a) ==
  /\ DtLe(tz, Local(slot_end), FromIso(a.start))
  /\ DtDiff(tz, FromIso(a.start), Local(slot_end)) < buffer_mins

StartsAtOrAfterSlotEnd(a) == DtLe(tz, Local(slot_end), FromIso(a.start))

Rejected == slots' = slots /\ slot_start' = slot_end /\ pc' = "inner"

----------------------------------------------------------------------------
(* C21 *)

\* the checks a grid candidate [s, e) of the record av has to pass
Qualifies(av, s, e) ==
  /\ day_in_preferred_days(s, av.preferred_days)
  /\ datetime_in_preferred_times(s, av.preferred_times)
  /\ ~conflicts_with_existing(av.timezone, s, e, av.existing_appointments)
  /\ respects_buffer(av.timezone, s, e, av.existing_appointments, av.buffer_minutes)

RECURSIVE GridFrom(_, _, _)
\* the qualifying candidates of one date on the grid from s on, in time order,
\* as long as they end by business end
GridFrom(av, day, s) ==
  LET closing == day * MinutesPerDay + Minutes(av.business_hours.end)
      e == s + av.slot_length_minutes
  IN  IF e > closing
      THEN <<>>
      ELSE (IF Qualifies(av, s, e)
            THEN << [start_iso |-> IsoFormat(av.timezone, s),
                     end_iso |-> IsoFormat(av.timezone, e),
                     provider_id |-> av.provider_id] >>
            ELSE <<>>)
             \o GridFrom(av, day, e)

RECURSIVE DatesFrom(_, _)
\* the qualifying candidates of the dates from day to the end of the range
DatesFrom(av, day) ==
  IF day > av.date_range.end
  THEN <<>>
  ELSE GridFrom(av, day, day * MinutesPerDay + Minutes(av.business_hours.start))
         \o DatesFrom(av, day + 1)

\* every qualifying grid candidate of the record, by date then time
Reference == DatesFrom(avail, dr.start)

\* the candidate about to be decided passes every check
PassesAll == PassDay /\ PassTime /\ PassConflict /\ PassBuffer

\* C21: the returned list is the first max_slots elements of the sequence, by
\* date then time, of the grid candidates of every date of the range that end
\* by business end and pass the weekday, window, overlap and buffer checks; a
\* candidate that passes every check is appended and stays in the returned
\* list, and a rejected candidate moves the step on by one slot length.
C21_MatchesReference ==
  /\ [](pc = "done" => result = FirstN(Reference, max_slots))
  /\ [][(AtCandidate /\ PassesAll) =>
          /\ slots' = Append(slots, [start_iso |-> IsoFormat(tz, slot_start),
                                     end_iso |-> IsoFormat(tz, slot_start + slot_mins),
                                     provider_id |-> avail.provider_id])
          /\ slot_start' = slot_start + slot_mins]_vars
  /\ [][(AtCandidate /\ ~PassesAll) =>
          /\ slots' = slots
          /\ slot_start' = slot_start + slot_mins
          /\ pc' = "inner"]_vars
  /\ [][(pc = "return") => result' = slots]_vars

\* a returned list that stops at max_slots with qualifying candidates left over
\* and that skips a rejected candidate between its first two slots
C21_Witness ==
  /\ pc = "done" /\ Len(result) = 2 /\ max_slots = 2
  /\ Len(Reference) > 2
  /\ DayOf(result[1].start_iso.w) = DayOf(result[2].start_iso.w)
  /\ result[2].start_iso.w > result[1].end_iso.w

----------------------------------------------------------------------------
(* C22 *)

\* compute_slots has been entered and has not returned
Running == pc \in {"outer", "inner", "advance", "return"}

\* C22: every call of compute_slots returns, whatever the appointments, the
\* preferences and max_slots; every turn of the inner loop, accepted or
\* rejected, moves slot_start on by slot_length_minutes (at least 5) and every
\* turn of the outer loop moves the date on by one day; the loops are left
\* because the range is exhausted or max_slots is reached.
C22_Terminates ==
  /\ Running ~> (pc = "done")
  /\ [][(pc = "inner" /\ pc' = "inner") =>
          /\ slot_mins >= 5
          /\ slot_start' = slot_start + slot_mins]_vars
  /\ [][(pc = "advance") => (current' = current + 1 /\ pc' = "outer")]_vars
  /\ [][(pc = "outer" /\ pc' = "return") =>
          (current > dr.end \/ Len(slots) >= max_slots)]_vars

\* a call over two dates that returns, after turns of both loops, with fewer
\* slots than asked for: the range is exhausted
C22_Witness ==
  /\ pc = "done" /\ round = 1
  /\ dr.end > dr.start /\ current = dr.end + 1
  /\ existing # <<>> /\ preferred_times # <<>>
  /\ Len(result) >= 1 /\ Len(result) < max_slots

====
